---- MODULE Spec2Model ----
(***************************************************************************)
(* A model of vsearch's subsample() (src/src/subsample.cc): the opening of *)
(* the output files, the reading of the database, the computation of the   *)
(* total mass, the resolution of the sample size, the selection loop and   *)
(* the loop that writes the kept and the discarded records.                *)
(* And a model of fastq_join() (src/src/fastqjoin.cc): the check of the    *)
(* parameters, the opening of the files and the loop that joins the        *)
(* forward and the reverse reads.                                          *)
(***************************************************************************)
EXTENDS Integers, Sequences, FiniteSets

\* ------------------------------------------------------------------ bounds

\* the largest number of amplicons in the input file
MaxSeqs == 2
\* the largest abundance an amplicon of the input file carries
MaxAbundance == 2

\* the largest number of reads in a FASTQ file given to fastq_join
MaxReads == 2

\* the largest --sample_size tried: one more than the largest total mass
MaxSampleSize == MaxSeqs * MaxAbundance + 1
\* the values of --sample_pct tried (used when --sample_size is 0)
SamplePcts == {0, 50}
\* what a read past the end of the database index may return
Garbage == {0, MaxAbundance + 1}

\* ------------------------------------------------------------------ state

VARIABLES
  pc,                      \* position in subsample()
  opt_fastaout,            \* TRUE: a file name was given (not nullptr)
  opt_fastaout_discarded,
  opt_fastqout,
  opt_fastqout_discarded,
  opt_sizein,
  opt_sample_size,
  opt_sample_pct,
  fp_fastaout,             \* TRUE: the file is open (not nullptr)
  fp_fastaout_discarded,
  fp_fastqout,
  fp_fastqout_discarded,
  db,                      \* seqno -> abundance of the amplicon, 0-based
  db_loaded,               \* db_read() has run
  dbsequencecount,
  mass_total,
  abundance,               \* std::vector<int> abundance, 0-based
  n,
  x, a, r, m, mass,
  samples, discarded, i,
  out,                     \* file -> the records printed to it, in order
  twin                     \* a second run of the selection, fed the same draws

opts == <<opt_fastaout, opt_fastaout_discarded, opt_fastqout,
          opt_fastqout_discarded, opt_sizein, opt_sample_size, opt_sample_pct>>
fps == <<fp_fastaout, fp_fastaout_discarded, fp_fastqout, fp_fastqout_discarded>>
dbvars == <<db, db_loaded>>
selvars == <<x, a, r, m, mass, abundance, twin>>
outvars == <<samples, discarded, i, out>>
subsamplevars ==
  <<pc, opts, fps, dbvars, dbsequencecount, mass_total, n, selvars, outvars>>

\* the state of fastq_join(); it shares opt_fastaout and opt_fastqout
VARIABLES
  join_pc,                 \* position in fastq_join(), "idle" when not called
  opt_reverse,             \* TRUE: a file name was given (not nullptr)
  opt_join_padgap,
  opt_join_padgapq,
  fwd_reads,               \* the records of the forward file, in order
  rev_reads,               \* the records of the reverse file, in order
  fastq_fwd,               \* the number of records read from the forward file
  fastq_rev,               \* the number of records read from the reverse file
  total,
  join_fp_fastqout,        \* fp_fastqout of fastq_join; TRUE: the file is open
  join_fp_fastaout,
  join_out                 \* file -> the records printed to it, in order

joinopts == <<opt_reverse, opt_join_padgap, opt_join_padgapq>>
joinfiles == <<fwd_reads, rev_reads, fastq_fwd, fastq_rev>>
joinfps == <<join_fp_fastqout, join_fp_fastaout>>
joinvars == <<join_pc, joinopts, joinfiles, total, joinfps, join_out>>

vars == <<subsamplevars, joinvars>>

JoinFiles == {"fastqout", "fastaout"}

\* fastq_join() before it is called
JoinIdle ==
  /\ opt_reverse = FALSE
  /\ opt_join_padgap = <<>>
  /\ opt_join_padgapq = <<>>
  /\ fwd_reads = <<>>
  /\ rev_reads = <<>>
  /\ fastq_fwd = 0
  /\ fastq_rev = 0
  /\ total = 0
  /\ join_fp_fastqout = FALSE
  /\ join_fp_fastaout = FALSE
  /\ join_out = [f \in JoinFiles |-> <<>>]

Files == {"fastaout", "fastaout_discarded", "fastqout", "fastqout_discarded"}

\* the input files: at most MaxSeqs amplicons, each with an abundance
Populations == UNION {[0 .. (k - 1) -> 0 .. MaxAbundance] : k \in 0 .. MaxSeqs}

\* --sample_size and --sample_pct: one of the two is given
SampleRequests ==
  {<<s, 0>> : s \in 1 .. MaxSampleSize} \cup {<<0, p>> : p \in SamplePcts}

\* ------------------------------------------------------------------ helpers

db_getsequencecount == Cardinality(DOMAIN db)

\* seqindex[seqno].abundance; a seqno outside the index reads whatever
\* lies there (g)
db_getabundance(seqno, g) == IF seqno \in DOMAIN db THEN db[seqno] ELSE g

\* random_ulong(bound): the values a draw may return
random_ulong(bound) == 0 .. (bound - 1)

RECURSIVE SumUpTo(_, _)
SumUpTo(f, k) == IF k <= 0 THEN 0 ELSE f[k - 1] + SumUpTo(f, k - 1)

\* the sum of a 0-based vector
Sum(f) == SumUpTo(f, Cardinality(DOMAIN f))

\* AmpliconMass reading the amplicon before seqno
AmpliconMass_PreviousIndex(seqno, g) ==
  IF opt_sizein THEN db_getabundance(seqno - 1, g) ELSE 1

\* opt_sizein ? db_getabundance(seqno) : 1
AmpliconMass(seqno, g) == IF opt_sizein THEN db_getabundance(seqno, g) ELSE 1

\* ExceedsPopulation off by one
ExceedsPopulation_OffByOne(size, mass_sum) == size > mass_sum + 1

\* n > mass_total
ExceedsPopulation(size, mass_sum) == size > mass_sum

\* LoopCondition as x >= 0
LoopCondition_OrEqual(left) == left >= 0

\* the loop condition x > 0
LoopCondition(left) == left > 0

\* ------------------------------------------------------------------ Init

Init ==
  /\ join_pc = "idle"
  /\ JoinIdle
  /\ pc = "open_fastaout"
  /\ opt_fastaout \in BOOLEAN
  /\ opt_fastaout_discarded \in BOOLEAN
  /\ opt_fastqout \in BOOLEAN
  /\ opt_fastqout_discarded \in BOOLEAN
  /\ opt_sizein \in BOOLEAN
  /\ \E request \in SampleRequests :
       /\ opt_sample_size = request[1]
       /\ opt_sample_pct = request[2]
  /\ fp_fastaout = FALSE
  /\ fp_fastaout_discarded = FALSE
  /\ fp_fastqout = FALSE
  /\ fp_fastqout_discarded = FALSE
  /\ db = <<>>
  /\ db_loaded = FALSE
  /\ dbsequencecount = 0
  /\ mass_total = 0
  /\ abundance = <<>>
  /\ n = 0
  /\ x = 0 /\ a = 0 /\ r = 0 /\ m = 0 /\ mass = 0
  /\ samples = 0 /\ discarded = 0 /\ i = 0
  /\ out = [f \in Files |-> <<>>]
  /\ twin = [x |-> 0, a |-> 0, r |-> 0, m |-> 0, mass |-> 0, abundance |-> <<>>]

\* ------------------------------------------------------------------ opening

OpenFastaout ==
  /\ pc = "open_fastaout"
  /\ \/ /\ ~opt_fastaout
        /\ pc' = "open_fastaout_discarded"
        /\ UNCHANGED fp_fastaout
     \/ /\ opt_fastaout
        /\ fp_fastaout' = TRUE
        /\ pc' = "open_fastaout_discarded"
     \/ /\ opt_fastaout
        /\ pc' = "fatal_open"
        /\ UNCHANGED fp_fastaout
  /\ UNCHANGED <<joinvars, opts, fp_fastaout_discarded, fp_fastqout, fp_fastqout_discarded,
                 dbvars, dbsequencecount, mass_total, n, selvars, outvars>>

OpenFastaoutDiscarded ==
  /\ pc = "open_fastaout_discarded"
  /\ \/ /\ ~opt_fastaout_discarded
        /\ pc' = "open_fastqout"
        /\ UNCHANGED fp_fastaout_discarded
     \/ /\ opt_fastaout_discarded
        /\ fp_fastaout_discarded' = TRUE
        /\ pc' = "open_fastqout"
     \/ /\ opt_fastaout_discarded
        /\ pc' = "fatal_open"
        /\ UNCHANGED fp_fastaout_discarded
  /\ UNCHANGED <<joinvars, opts, fp_fastaout, fp_fastqout, fp_fastqout_discarded,
                 dbvars, dbsequencecount, mass_total, n, selvars, outvars>>

OpenFastqout ==
  /\ pc = "open_fastqout"
  /\ \/ /\ ~opt_fastqout
        /\ pc' = "open_fastqout_discarded"
        /\ UNCHANGED fp_fastqout
     \/ /\ opt_fastqout
        /\ fp_fastqout' = TRUE
        /\ pc' = "open_fastqout_discarded"
     \/ /\ opt_fastqout
        /\ pc' = "fatal_open"
        /\ UNCHANGED fp_fastqout
  /\ UNCHANGED <<joinvars, opts, fp_fastaout, fp_fastaout_discarded, fp_fastqout_discarded,
                 dbvars, dbsequencecount, mass_total, n, selvars, outvars>>

OpenFastqoutDiscarded ==
  /\ pc = "open_fastqout_discarded"
  /\ \/ /\ ~opt_fastqout_discarded
        /\ pc' = "db_read"
        /\ UNCHANGED fp_fastqout_discarded
     \/ /\ opt_fastqout_discarded
        /\ fp_fastqout_discarded' = TRUE
        /\ pc' = "db_read"
     \/ /\ opt_fastqout_discarded
        /\ pc' = "fatal_open"
        /\ UNCHANGED fp_fastqout_discarded
  /\ UNCHANGED <<joinvars, opts, fp_fastaout, fp_fastaout_discarded, fp_fastqout,
                 dbvars, dbsequencecount, mass_total, n, selvars, outvars>>

\* ------------------------------------------------------------------ reading

\* db_read() and the check that FASTQ output has quality scores to print
DbRead ==
  /\ pc = "db_read"
  /\ \E population \in Populations, db_is_fastq \in BOOLEAN :
       /\ db' = population
       /\ db_loaded' = TRUE
       /\ pc' = IF (fp_fastqout \/ fp_fastqout_discarded) /\ ~db_is_fastq
                THEN "fatal_quality"
                ELSE "mass_total"
  /\ UNCHANGED <<joinvars, opts, fps, dbsequencecount, mass_total, n, selvars, outvars>>

\* dbsequencecount and mass_total
ComputeMass ==
  /\ pc = "mass_total"
  /\ dbsequencecount' = db_getsequencecount
  /\ mass_total' = IF ~opt_sizein THEN db_getsequencecount ELSE Sum(db)
  /\ pc' = "sample_size"
  /\ UNCHANGED <<joinvars, opts, fps, dbvars, n, selvars, outvars>>

\* ResolveSampleSize with the abundance vector filled with 1
ResolveSampleSize_DefaultOne ==
  /\ pc = "sample_size"
  /\ abundance' = [seqno \in 0 .. (dbsequencecount - 1) |-> 1]
  /\ n' = IF opt_sample_size # 0
          THEN opt_sample_size
          ELSE (mass_total * opt_sample_pct) \div 100
  /\ pc' = IF ExceedsPopulation(n', mass_total) THEN "fatal_size" ELSE "init_select"
  /\ UNCHANGED <<joinvars, opts, fps, dbvars, dbsequencecount, mass_total,
                 x, a, r, m, mass, twin, outvars>>

\* the abundance vector, n, and the check of n against mass_total
ResolveSampleSize ==
  /\ pc = "sample_size"
  /\ abundance' = [seqno \in 0 .. (dbsequencecount - 1) |-> 0]
  /\ n' = IF opt_sample_size # 0
          THEN opt_sample_size
          ELSE (mass_total * opt_sample_pct) \div 100
  /\ pc' = IF ExceedsPopulation(n', mass_total) THEN "fatal_size" ELSE "init_select"
  /\ UNCHANGED <<joinvars, opts, fps, dbvars, dbsequencecount, mass_total,
                 x, a, r, m, mass, twin, outvars>>

\* ------------------------------------------------------------------ selection

\* DrawBound without the units examined
DrawBound_Total(mass_sum, examined) == mass_sum

\* mass_total - r, the bound given to random_ulong
DrawBound(mass_sum, examined) == mass_sum - examined

\* the selection state of the run, as one value
SelState == [x |-> x, a |-> a, r |-> r, m |-> m, mass |-> mass, abundance |-> abundance]

\* LoopBody with --x outside the if
LoopBody_DecrementOutside(st, random, g) ==
  LET selected == random < st.x
      next == st.m + 1 >= st.mass
  IN  [x |-> st.x - 1,
       a |-> IF next THEN st.a + 1 ELSE st.a,
       r |-> st.r + 1,
       m |-> IF next THEN 0 ELSE st.m + 1,
       mass |-> IF next THEN AmpliconMass(st.a + 1, g) ELSE st.mass,
       abundance |-> IF selected /\ st.a \in DOMAIN st.abundance
                     THEN [st.abundance EXCEPT ![st.a] = @ + 1]
                     ELSE st.abundance]

\* LoopBody with random <= x
LoopBody_OrEqual(st, random, g) ==
  LET selected == random <= st.x
      next == st.m + 1 >= st.mass
  IN  [x |-> IF selected THEN st.x - 1 ELSE st.x,
       a |-> IF next THEN st.a + 1 ELSE st.a,
       r |-> st.r + 1,
       m |-> IF next THEN 0 ELSE st.m + 1,
       mass |-> IF next THEN AmpliconMass(st.a + 1, g) ELSE st.mass,
       abundance |-> IF selected /\ st.a \in DOMAIN st.abundance
                     THEN [st.abundance EXCEPT ![st.a] = @ + 1]
                     ELSE st.abundance]

\* one iteration of the while loop, on the draw `random`; a write past the
\* end of the abundance vector lands outside it
LoopBody(st, random, g) ==
  LET selected == random < st.x
      next == st.m + 1 >= st.mass
  IN  [x |-> IF selected THEN st.x - 1 ELSE st.x,
       a |-> IF next THEN st.a + 1 ELSE st.a,
       r |-> st.r + 1,
       m |-> IF next THEN 0 ELSE st.m + 1,
       mass |-> IF next THEN AmpliconMass(st.a + 1, g) ELSE st.mass,
       abundance |-> IF selected /\ st.a \in DOMAIN st.abundance
                     THEN [st.abundance EXCEPT ![st.a] = @ + 1]
                     ELSE st.abundance]

\* the iteration reads or writes outside the database index or the vector
LoopBodyOutOfRange(st, random) ==
  \/ random < st.x /\ st.a \notin DOMAIN st.abundance
  \/ st.m + 1 >= st.mass /\ opt_sizein /\ (st.a + 1) \notin DOMAIN db

\* x, a, r, m and the mass of the first amplicon
InitSelection ==
  /\ pc = "init_select"
  /\ \/ /\ \E g \in Garbage, g2 \in Garbage :
             /\ mass' = AmpliconMass(0, g)
             /\ twin' = [x |-> n, a |-> 0, r |-> 0, m |-> 0,
                         mass |-> AmpliconMass(0, g2), abundance |-> abundance]
        /\ x' = n /\ a' = 0 /\ r' = 0 /\ m' = 0
        /\ pc' = "select"
     \/ /\ opt_sizein /\ 0 \notin DOMAIN db
        /\ pc' = "segv"
        /\ UNCHANGED <<x, a, r, m, mass, twin>>
  /\ UNCHANGED <<joinvars, opts, fps, dbvars, dbsequencecount, mass_total, n, abundance, outvars>>

\* one iteration of while (x > 0)
SelectIter ==
  /\ pc = "select"
  /\ LoopCondition(x)
  /\ \E random \in random_ulong(DrawBound(mass_total, r)) :
       \/ /\ \E g \in Garbage, g2 \in Garbage :
               LET st == LoopBody(SelState, random, g)
               IN  /\ x' = st.x /\ a' = st.a /\ r' = st.r /\ m' = st.m
                   /\ mass' = st.mass /\ abundance' = st.abundance
                   /\ twin' = IF LoopCondition(twin.x)
                              THEN LoopBody(twin, random, g2)
                              ELSE twin
          /\ pc' = "select"
       \/ /\ LoopBodyOutOfRange(SelState, random)
          /\ pc' = "segv"
          /\ UNCHANGED selvars
  /\ UNCHANGED <<joinvars, opts, fps, dbvars, dbsequencecount, mass_total, n, outvars>>

\* the loop is left; samples, discarded and i of the writing loop
SelectExit ==
  /\ pc = "select"
  /\ ~LoopCondition(x)
  /\ samples' = 0 /\ discarded' = 0 /\ i' = 0
  /\ pc' = "write"
  /\ UNCHANGED <<joinvars, opts, fps, dbvars, dbsequencecount, mass_total, n, selvars, out>>

\* ------------------------------------------------------------------ writing

Record(seqno, ab, ordinal) == [seqno |-> seqno, abundance |-> ab, ordinal |-> ordinal]

\* NextOrdinal counting every amplicon
NextOrdinal_Always(count, ab) == count + 1

\* ++samples under if (ab_sub > 0), ++discarded under if (ab_discarded > 0)
NextOrdinal(count, ab) == IF ab > 0 THEN count + 1 ELSE count

\* KeptOutput with the FASTQ printing under the FASTA option
KeptOutput_WrongOption(o, seqno, ab_sub, ordinal) ==
  IF ab_sub > 0
  THEN [o EXCEPT !["fastaout"] =
                   IF opt_fastaout THEN Append(@, Record(seqno, ab_sub, ordinal)) ELSE @,
                 !["fastqout"] =
                   IF opt_fastaout THEN Append(@, Record(seqno, ab_sub, ordinal)) ELSE @]
  ELSE o

\* the printing under if (ab_sub > 0)
KeptOutput(o, seqno, ab_sub, ordinal) ==
  IF ab_sub > 0
  THEN [o EXCEPT !["fastaout"] =
                   IF opt_fastaout THEN Append(@, Record(seqno, ab_sub, ordinal)) ELSE @,
                 !["fastqout"] =
                   IF opt_fastqout THEN Append(@, Record(seqno, ab_sub, ordinal)) ELSE @]
  ELSE o

\* the printing under if (ab_discarded > 0)
DiscardedOutput(o, seqno, ab_discarded, ordinal) ==
  IF ab_discarded > 0
  THEN [o EXCEPT !["fastaout_discarded"] =
                   IF opt_fastaout_discarded
                   THEN Append(@, Record(seqno, ab_discarded, ordinal)) ELSE @,
                 !["fastqout_discarded"] =
                   IF opt_fastqout_discarded
                   THEN Append(@, Record(seqno, ab_discarded, ordinal)) ELSE @]
  ELSE o

\* one iteration of for (i = 0; i < dbsequencecount; i++)
WriteIter ==
  /\ pc = "write"
  /\ i < dbsequencecount
  /\ LET ab_sub == abundance[i]
         ab_discarded == AmpliconMass(i, 0) - ab_sub
     IN  /\ samples' = NextOrdinal(samples, ab_sub)
         /\ discarded' = NextOrdinal(discarded, ab_discarded)
         /\ out' = DiscardedOutput(KeptOutput(out, i, ab_sub, samples'),
                                   i, ab_discarded, discarded')
  /\ i' = i + 1
  /\ UNCHANGED <<joinvars, pc, opts, fps, dbvars, dbsequencecount, mass_total, n, selvars>>

\* the loop is left; db_free() and the closing of the files
Finish ==
  /\ pc = "write"
  /\ ~(i < dbsequencecount)
  /\ db_loaded' = FALSE
  /\ fp_fastaout' = FALSE
  /\ fp_fastqout' = FALSE
  /\ fp_fastaout_discarded' = FALSE
  /\ fp_fastqout_discarded' = FALSE
  /\ pc' = "done"
  /\ UNCHANGED <<joinvars, opts, db, dbsequencecount, mass_total, n, selvars, outvars>>

\* ------------------------------------------------------------------ specification

Next ==
  \/ OpenFastaout
  \/ OpenFastaoutDiscarded
  \/ OpenFastqout
  \/ OpenFastqoutDiscarded
  \/ DbRead
  \/ ComputeMass
  \/ ResolveSampleSize
  \/ InitSelection
  \/ SelectIter
  \/ SelectExit
  \/ WriteIter
  \/ Finish

Spec == Init /\ [][Next]_vars

\* ------------------------------------------------------------------ properties

\* the selection loop has been left
SelectionDone == pc \in {"write", "done"}

\* the weight w_j of amplicon j: its abundance with --sizein, 1 without
Weight(j) == AmpliconMass(j, 0)

Seqnos == DOMAIN abundance

NothingPrinted == \A f \in Files : out[f] = <<>>

NothingSelected ==
  /\ \A j \in Seqnos : abundance[j] = 0
  /\ r = 0

\* the records of a file without their ordinals
Payload(records) ==
  [p \in 1 .. Len(records) |->
     [seqno |-> records[p].seqno, abundance |-> records[p].abundance]]

RECURSIVE SumAbundance(_)
SumAbundance(records) ==
  IF records = <<>>
  THEN 0
  ELSE records[1].abundance + SumAbundance(Tail(records))

\* C1: when the selection loop has finished, the selected counts of the
\* amplicons sum to n exactly.
C1_SelectedSumIsN == SelectionDone => Sum(abundance) = n

C1_Witness ==
  /\ pc = "write"
  /\ opt_sizein
  /\ dbsequencecount >= 2
  /\ n >= 2 /\ n < mass_total
  /\ \A j \in Seqnos : abundance[j] > 0

\* C2: in every state of the selection, and after it, every amplicon has
\* 0 <= s_i <= w_i, also when some amplicons have weight 0.
C2_SelectedWithinWeight ==
  \A j \in Seqnos : 0 <= abundance[j] /\ abundance[j] <= Weight(j)

\* C2 holds of the populations without an amplicon of weight 0
C2_WithoutZeroWeights ==
  (\A j \in DOMAIN db : Weight(j) >= 1) => C2_SelectedWithinWeight

\* C3 as claimed: when n exceeds the total mass the run fails before any
\* output file is opened, before the population is read and before any
\* selection state is changed.
C3_FailsBeforeAnyIO ==
  pc = "fatal_size" =>
    /\ ~fp_fastaout /\ ~fp_fastaout_discarded
    /\ ~fp_fastqout /\ ~fp_fastqout_discarded
    /\ ~db_loaded
    /\ NothingSelected
    /\ NothingPrinted

\* C3 as amended: the run fails with the error exactly when n exceeds the
\* total mass, and when it fails nothing has been selected, drawn or printed;
\* every configured output file has been opened and the population read.
C3_FailsBeforeSelection ==
  /\ n > mass_total <=> pc = "fatal_size"
  /\ pc = "fatal_size" =>
       /\ NothingSelected
       /\ x = 0 /\ samples = 0 /\ discarded = 0
       /\ NothingPrinted
       /\ db_loaded
       /\ fp_fastaout = opt_fastaout
       /\ fp_fastaout_discarded = opt_fastaout_discarded
       /\ fp_fastqout = opt_fastqout
       /\ fp_fastqout_discarded = opt_fastqout_discarded

C3_Witness ==
  /\ pc = "fatal_size"
  /\ opt_fastaout /\ opt_fastqout_discarded
  /\ opt_sizein
  /\ dbsequencecount = 2
  /\ n = mass_total + 1

\* C4: when n = M the selection ends with s_i = w_i for every amplicon and
\* no discarded record is printed.
C4_FullSampleKeepsAll ==
  (SelectionDone /\ n = mass_total) =>
    /\ \A j \in Seqnos : abundance[j] = Weight(j)
    /\ discarded = 0
    /\ out["fastaout_discarded"] = <<>>
    /\ out["fastqout_discarded"] = <<>>

\* C4 holds of the populations without an amplicon of weight 0
C4_WithoutZeroWeights ==
  (\A j \in DOMAIN db : Weight(j) >= 1) => C4_FullSampleKeepsAll

\* the discarded records of a run that selects nothing, up to amplicon upto
RECURSIVE AllDiscarded(_)
AllDiscarded(upto) ==
  IF upto <= 0
  THEN <<>>
  ELSE IF Weight(upto - 1) > 0
       THEN Append(AllDiscarded(upto - 1),
                   [seqno |-> upto - 1, abundance |-> Weight(upto - 1)])
       ELSE AllDiscarded(upto - 1)

\* C5: when n = 0 the loop makes no iteration and no draw, every s_i stays
\* 0, no kept record is printed, and every amplicon of weight > 0 gets one
\* discarded record of its whole weight.
C5_EmptySample ==
  (pc \in {"select", "write", "done"} /\ n = 0) =>
    /\ NothingSelected
    /\ samples = 0
    /\ out["fastaout"] = <<>>
    /\ out["fastqout"] = <<>>
    /\ discarded = Len(AllDiscarded(i))
    /\ opt_fastaout_discarded =>
         Payload(out["fastaout_discarded"]) = AllDiscarded(i)
    /\ opt_fastqout_discarded =>
         Payload(out["fastqout_discarded"]) = AllDiscarded(i)

C5_Witness ==
  /\ pc = "done"
  /\ n = 0
  /\ opt_sizein
  /\ opt_fastaout_discarded
  /\ dbsequencecount = 2
  /\ db[0] = 0
  /\ Len(out["fastaout_discarded"]) = 1

RECURSIVE Factorial(_)
Factorial(k) == IF k <= 0 THEN 1 ELSE k * Factorial(k - 1)

\* the draws on which the iteration at st selects virtual unit st.r exactly
\* when picked holds it
DrawsFor(st, picked) ==
  {d \in random_ulong(DrawBound(mass_total, st.r)) :
     (LoopBody(st, d, 0).x < st.x) <=> (st.r \in picked)}

\* the number of sequences of M draws, the k-th uniform on [0, M - k), on
\* which the loop started in st selects exactly the virtual units of picked;
\* the draws after the loop is left are free
RECURSIVE Ways(_, _), SumWays(_, _, _)
Ways(st, picked) ==
  IF ~LoopCondition(st.x)
  THEN IF \A unit \in picked : unit < st.r
       THEN Factorial(mass_total - st.r)
       ELSE 0
  ELSE SumWays({LoopBody(st, d, 0) : d \in DrawsFor(st, picked)}, st, picked)

SumWays(successors, st, picked) ==
  IF successors = {}
  THEN 0
  ELSE LET t == CHOOSE u \in successors : TRUE
       IN  Cardinality({d \in DrawsFor(st, picked) : LoopBody(st, d, 0) = t})
             * Ways(t, picked)
           + SumWays(successors \ {t}, st, picked)

\* the state in which the loop started in st ends when it selects exactly
\* the virtual units of picked
RECURSIVE Follow(_, _)
Follow(st, picked) ==
  IF ~LoopCondition(st.x) \/ DrawsFor(st, picked) = {}
  THEN st
  ELSE Follow(LoopBody(st, CHOOSE d \in DrawsFor(st, picked) : TRUE, 0), picked)

\* the subsets of n of the M virtual units
SampleSubsets == {units \in SUBSET (0 .. (mass_total - 1)) : Cardinality(units) = n}

\* C6: every subset of n of the M virtual units is picked by the same
\* number of draw sequences, n! * (M - n)! of the M!, and without --sizein
\* the subset picked is the set of amplicons with s_i = 1.
C6_SubsetsEquallyLikely ==
  (pc = "select" /\ r = 0) =>
    \A units \in SampleSubsets :
      /\ Ways(SelState, units) = Factorial(n) * Factorial(mass_total - n)
      /\ ~opt_sizein =>
           Follow(SelState, units).abundance =
             [j \in Seqnos |-> IF j \in units THEN 1 ELSE 0]

C6_Witness ==
  /\ pc = "select" /\ r = 0
  /\ opt_sizein
  /\ mass_total = 4
  /\ n = 2
  /\ Ways(SelState, {1, 3}) = 4

\* C7: after the writing loop the kept records carry n in total and the
\* discarded records M - n.
C7_PartitionSums ==
  pc = "done" =>
    /\ opt_fastaout => SumAbundance(out["fastaout"]) = n
    /\ opt_fastqout => SumAbundance(out["fastqout"]) = n
    /\ opt_fastaout_discarded =>
         SumAbundance(out["fastaout_discarded"]) = mass_total - n
    /\ opt_fastqout_discarded =>
         SumAbundance(out["fastqout_discarded"]) = mass_total - n

\* C7 holds of the populations without an amplicon of weight 0
C7_WithoutZeroWeights ==
  (\A j \in DOMAIN db : Weight(j) >= 1) => C7_PartitionSums

\* the amplicons among the first upto with a kept, a discarded part
KeptBefore(upto) == {j \in 0 .. (upto - 1) : abundance[j] > 0}
DiscardedBefore(upto) == {j \in 0 .. (upto - 1) : Weight(j) - abundance[j] > 0}

\* the records of a file are in input order and the p-th carries ordinal p,
\* the number of amplicons of `side` up to its own
OrdinalsOf(records, side(_)) ==
  \A p \in 1 .. Len(records) :
    /\ records[p].ordinal = p
    /\ records[p].ordinal = Cardinality(side(records[p].seqno + 1))
    /\ p > 1 => records[p - 1].seqno < records[p].seqno

\* C8: the j-th amplicon with a kept part gets kept ordinal j, the j-th
\* with a discarded part discarded ordinal j; the counters do not depend on
\* each other or on the files configured.
C8_Ordinals ==
  pc \in {"write", "done"} =>
    /\ samples = Cardinality(KeptBefore(i))
    /\ discarded = Cardinality(DiscardedBefore(i))
    /\ OrdinalsOf(out["fastaout"], KeptBefore)
    /\ OrdinalsOf(out["fastqout"], KeptBefore)
    /\ OrdinalsOf(out["fastaout_discarded"], DiscardedBefore)
    /\ OrdinalsOf(out["fastqout_discarded"], DiscardedBefore)

C8_Witness ==
  /\ pc = "done"
  /\ ~opt_fastaout /\ opt_fastqout /\ opt_fastaout_discarded
  /\ dbsequencecount = 2
  /\ abundance[0] = 0 /\ abundance[1] > 0
  /\ Weight(1) - abundance[1] > 0
  /\ out["fastqout"][1].ordinal = 1
  /\ out["fastaout_discarded"][2].ordinal = 2

\* the seqno and abundance of the records due from the first upto amplicons
RECURSIVE KeptPayload(_), DiscardedPayload(_)
KeptPayload(upto) ==
  IF upto <= 0
  THEN <<>>
  ELSE IF abundance[upto - 1] > 0
       THEN Append(KeptPayload(upto - 1),
                   [seqno |-> upto - 1, abundance |-> abundance[upto - 1]])
       ELSE KeptPayload(upto - 1)

DiscardedPayload(upto) ==
  IF upto <= 0
  THEN <<>>
  ELSE IF Weight(upto - 1) - abundance[upto - 1] > 0
       THEN Append(DiscardedPayload(upto - 1),
                   [seqno |-> upto - 1,
                    abundance |-> Weight(upto - 1) - abundance[upto - 1]])
       ELSE DiscardedPayload(upto - 1)

\* C9: a kept record goes to exactly the configured kept files, a discarded
\* record to exactly the configured discarded files; a file that is not
\* configured gets nothing.
C9_Routing ==
  /\ Payload(out["fastaout"]) = IF opt_fastaout THEN KeptPayload(i) ELSE <<>>
  /\ Payload(out["fastqout"]) = IF opt_fastqout THEN KeptPayload(i) ELSE <<>>
  /\ Payload(out["fastaout_discarded"]) =
       IF opt_fastaout_discarded THEN DiscardedPayload(i) ELSE <<>>
  /\ Payload(out["fastqout_discarded"]) =
       IF opt_fastqout_discarded THEN DiscardedPayload(i) ELSE <<>>

C9_Witness ==
  /\ pc = "done"
  /\ opt_fastaout /\ ~opt_fastqout
  /\ ~opt_fastaout_discarded /\ opt_fastqout_discarded
  /\ Len(out["fastaout"]) = 2
  /\ Len(out["fastqout_discarded"]) = 1
  /\ out["fastqout"] = <<>> /\ out["fastaout_discarded"] = <<>>

\* C10: a second run on the same weights, the same n and the same draws
\* selects the same counts and examines as many virtual units, whatever
\* else differs between the two.
C10_Determinism ==
  pc \in {"select", "write", "done"} =>
    /\ twin.abundance = abundance
    /\ twin.r = r
    /\ twin.x = x

C10_Witness ==
  /\ pc = "write"
  /\ n >= 2
  /\ dbsequencecount = 2
  /\ twin.mass # mass
  /\ twin.abundance = abundance

\* C11: when n > M the run ends in the precondition error with every
\* selected count still 0, the selection never started, no draw made and no
\* record printed to any file.
C11_OverflowLeavesNothing ==
  n > mass_total =>
    /\ pc = "fatal_size"
    /\ DOMAIN abundance = 0 .. (dbsequencecount - 1)
    /\ \A j \in Seqnos : abundance[j] = 0
    /\ r = 0 /\ x = 0 /\ a = 0 /\ m = 0 /\ mass = 0
    /\ samples = 0 /\ discarded = 0 /\ i = 0
    /\ NothingPrinted

C11_Witness ==
  /\ pc = "fatal_size"
  /\ opt_sizein
  /\ dbsequencecount = 2
  /\ db[0] = 2 /\ db[1] = 1
  /\ n = 4
  /\ opt_fastaout /\ opt_fastaout_discarded

\* C12: at the head of every iteration x <= M - r, so every draw is asked
\* for with a bound M - r >= 1 and r < M.
C12_DrawBoundValid ==
  pc = "select" =>
    /\ x <= mass_total - r
    /\ LoopCondition(x) => (mass_total - r >= 1 /\ r < mass_total)

C12_Witness ==
  /\ pc = "select"
  /\ opt_sizein
  /\ r >= 2
  /\ x = 1
  /\ mass_total - r = 1

\* C13: the loop makes at most M iterations, each examines one virtual
\* unit and either selects it (x one less) or not (x unchanged), and the
\* loop is left, with r unchanged, in the first state with x = 0: the last
\* iteration is the one of the n-th selection.
C13_BoundedEarlyExit ==
  [][pc = "select" =>
       /\ r <= mass_total
       /\ pc' = "select" =>
            /\ x > 0
            /\ r' = r + 1
            /\ r' <= mass_total
            /\ \/ x' = x - 1 /\ Sum(abundance') = Sum(abundance) + 1
               \/ x' = x /\ abundance' = abundance
            /\ x' = 0 => x = 1
       /\ x = 0 =>
            /\ pc' = "write"
            /\ r' = r
            /\ abundance' = abundance]_vars

C13_Witness ==
  /\ pc = "write"
  /\ opt_sizein
  /\ n = 2
  /\ r = 2
  /\ mass_total = 4

\* the number of virtual units owned by the amplicons before j
RECURSIVE WeightBefore(_)
WeightBefore(j) == IF j <= 0 THEN 0 ELSE Weight(j - 1) + WeightBefore(j - 1)

\* the amplicon that owns virtual unit `unit`
Owner(unit) ==
  CHOOSE j \in DOMAIN db : WeightBefore(j) <= unit /\ unit < WeightBefore(j + 1)

\* C14: a selected virtual unit is credited to the amplicon that owns it:
\* when the unit at position r is selected, the count incremented is that of
\* the amplicon i with w_0 + ... + w_(i-1) <= r < w_0 + ... + w_i.
C14_CreditedToOwner ==
  [][(pc = "select" /\ pc' = "select" /\ x' < x) =>
       abundance' = [abundance EXCEPT ![Owner(r)] = @ + 1]]_vars

\* C14 holds of the populations without an amplicon of weight 0
C14_WithoutZeroWeights ==
  [][(\A j \in DOMAIN db : Weight(j) >= 1) =>
       ((pc = "select" /\ pc' = "select" /\ x' < x) =>
          abundance' = [abundance EXCEPT ![Owner(r)] = @ + 1])]_vars

\* C15: every read of an amplicon's weight and every increment of a
\* selected count uses an index a with 0 <= a < k: the run never ends in a
\* fault, with --sizein the amplicon whose mass was loaded last exists, and
\* the amplicon the next selection is credited to exists.
C15_IndicesInRange ==
  /\ pc # "segv"
  /\ (pc \in {"select", "write", "done"} /\ opt_sizein) =>
       a \in 0 .. (dbsequencecount - 1)
  /\ (pc = "select" /\ LoopCondition(x)) => a \in Seqnos

\* the increments alone stay inside the abundance vector
C15_IncrementsInRange ==
  (pc = "select" /\ LoopCondition(x)) => a \in Seqnos

\* without --sizein nothing is read and the run never ends in a fault
C15_WithoutSizein == ~opt_sizein => pc # "segv"

\* ---------------------------------------------------------------------
\* fastq_join() (src/src/fastqjoin.cc)
\* ---------------------------------------------------------------------

\* the reads a FASTQ file may hold: a sequence and a quality string of the
\* same length
ReadPool ==
  { [sequence |-> <<>>, quality |-> <<>>],
    [sequence |-> <<"A">>, quality |-> <<"I">>],
    [sequence |-> <<"C", "A">>, quality |-> <<"I", "5">> ] }

\* the FASTQ files tried: at most MaxReads reads each
FastqInputs == UNION {[1 .. k -> ReadPool] : k \in 0 .. MaxReads}

\* the values tried for --join_padgap and for --join_padgapq
PadGaps == {<<>>, <<"N">>}
PadGapQs == {<<>>, <<"I">>}

\* the terminator of a C string
NUL == "NUL"

\* the chars of the reads, of the padding and of the quality strings
Chars == {"A", "C", "G", "T", "N", "I", "5", NUL}

\* chrmap_complement_vector on these chars
chrmap_complement_vector ==
  [c \in Chars |->
     CASE c = "A" -> "T"
       [] c = "C" -> "G"
       [] c = "G" -> "C"
       [] c = "T" -> "A"
       [] OTHER -> c]

\* fastq_next(): TRUE when the file holds another record, which is then the
\* current one
fastq_next(reads, consumed) == consumed < Len(reads)

\* std::vector<char>::clear() then resize(needed): needed chars, all zero
resize(needed) == [p \in 1 .. needed |-> NUL]

\* std::strcpy(&buffer[at], str): the chars of str and a terminator
strcpy(buffer, at, str) ==
  [p \in DOMAIN buffer |->
     IF at < p /\ p <= at + Len(str) THEN str[p - at]
     ELSE IF p = at + Len(str) + 1 THEN NUL
     ELSE buffer[p]]

\* std::transform over the reverse iterators of str into &buffer[at]
transform_reverse(buffer, at, str, op) ==
  [p \in DOMAIN buffer |->
     IF at < p /\ p <= at + Len(str) THEN op[str[Len(str) - (p - at) + 1]]
     ELSE buffer[p]]

\* the first len chars of a buffer, as the print functions take them
Printed(buffer, len) == [p \in 1 .. len |-> buffer[p]]

\* the lambda that copies a quality char
Unchanged == [c \in Chars |-> c]

padlen == Len(opt_join_padgap)

\* the ordinal given to the print functions
JoinOrdinal_ZeroBased(joined) == joined

JoinOrdinal(joined) == joined + 1

\* the body of the loop from the lengths to the end of the join: the
\* record handed to the print functions
JoinRecord(fwd, rev, joined) ==
  LET fwd_seq_length == Len(fwd.sequence)
      rev_seq_length == Len(rev.sequence)
      needed == fwd_seq_length + padlen + rev_seq_length + 1
      seq_1 == strcpy(resize(needed), 0, fwd.sequence)
      qual_1 == strcpy(resize(needed), 0, fwd.quality)
      len_1 == fwd_seq_length
      seq_2 == strcpy(seq_1, len_1, opt_join_padgap)
      qual_2 == strcpy(qual_1, len_1, opt_join_padgapq)
      len_2 == len_1 + padlen
      seq_3 == transform_reverse(seq_2, len_2, rev.sequence,
                                 chrmap_complement_vector)
      qual_3 == transform_reverse(qual_2, len_2, rev.quality, Unchanged)
      len_3 == len_2 + rev_seq_length
  IN  [sequence |-> Printed(seq_3, len_3),
       quality |-> Printed(qual_3, len_3),
       len |-> len_3,
       ordinal |-> JoinOrdinal(joined)]

\* the state when fastq_join() is entered: the options are those of the
\* command line, subsample() is not called
JoinInit ==
  /\ join_pc = "check_parameters"
  /\ opt_reverse \in BOOLEAN
  /\ opt_join_padgap \in PadGaps
  /\ opt_join_padgapq \in PadGapQs
  /\ opt_fastaout \in BOOLEAN
  /\ opt_fastqout \in BOOLEAN
  /\ fwd_reads = <<>>
  /\ rev_reads = <<>>
  /\ fastq_fwd = 0
  /\ fastq_rev = 0
  /\ total = 0
  /\ join_fp_fastqout = FALSE
  /\ join_fp_fastaout = FALSE
  /\ join_out = [f \in JoinFiles |-> <<>>]
  /\ pc = "idle"
  /\ opt_fastaout_discarded = FALSE
  /\ opt_fastqout_discarded = FALSE
  /\ opt_sizein = FALSE
  /\ opt_sample_size = 0
  /\ opt_sample_pct = 0
  /\ fp_fastaout = FALSE
  /\ fp_fastaout_discarded = FALSE
  /\ fp_fastqout = FALSE
  /\ fp_fastqout_discarded = FALSE
  /\ db = <<>>
  /\ db_loaded = FALSE
  /\ dbsequencecount = 0
  /\ mass_total = 0
  /\ abundance = <<>>
  /\ n = 0
  /\ x = 0 /\ a = 0 /\ r = 0 /\ m = 0 /\ mass = 0
  /\ samples = 0 /\ discarded = 0 /\ i = 0
  /\ out = [f \in Files |-> <<>>]
  /\ twin = [x |-> 0, a |-> 0, r |-> 0, m |-> 0, mass |-> 0, abundance |-> <<>>]

\* check_parameters()
check_parameters ==
  /\ join_pc = "check_parameters"
  /\ join_pc' =
       IF ~opt_reverse THEN "fatal_reverse"
       ELSE IF ~opt_fastqout /\ ~opt_fastaout THEN "fatal_no_output"
       ELSE IF Len(opt_join_padgap) # Len(opt_join_padgapq) THEN "fatal_padgap"
       ELSE "open_inputs"
  /\ UNCHANGED <<subsamplevars, joinopts, joinfiles, total, joinfps, join_out>>

\* fastq_open() of the forward and of the reverse file
JoinOpenInputs ==
  /\ join_pc = "open_inputs"
  /\ fwd_reads' \in FastqInputs
  /\ rev_reads' \in FastqInputs
  /\ fastq_fwd' = 0
  /\ fastq_rev' = 0
  /\ join_pc' = "open_fastqout"
  /\ UNCHANGED <<subsamplevars, joinopts, total, joinfps, join_out>>

\* join_fileopenw() of --fastqout, when it is given
JoinOpenFastqout ==
  /\ join_pc = "open_fastqout"
  /\ \/ /\ opt_fastqout
        /\ \/ join_fp_fastqout' = TRUE /\ join_pc' = "open_fastaout"
           \/ join_fp_fastqout' = FALSE /\ join_pc' = "fatal_open"
     \/ /\ ~opt_fastqout
        /\ join_fp_fastqout' = join_fp_fastqout
        /\ join_pc' = "open_fastaout"
  /\ UNCHANGED <<subsamplevars, joinopts, joinfiles, total, join_fp_fastaout,
                 join_out>>

\* join_fileopenw() of --fastaout, when it is given, and total = 0
JoinOpenFastaout ==
  /\ join_pc = "open_fastaout"
  /\ \/ /\ opt_fastaout
        /\ \/ join_fp_fastaout' = TRUE /\ join_pc' = "join" /\ total' = 0
           \/ join_fp_fastaout' = FALSE /\ join_pc' = "fatal_open"
                /\ total' = total
     \/ /\ ~opt_fastaout
        /\ join_fp_fastaout' = join_fp_fastaout
        /\ join_pc' = "join"
        /\ total' = 0
  /\ UNCHANGED <<subsamplevars, joinopts, joinfiles, join_fp_fastqout,
                 join_out>>

\* what one file holds after one turn of the loop
JoinPrint(f, record) ==
  IF (f = "fastqout" /\ opt_fastqout) \/ (f = "fastaout" /\ opt_fastaout)
  THEN Append(join_out[f], record)
  ELSE join_out[f]

\* one turn of the loop: a forward record is read, then a reverse record,
\* and the joined record is printed
JoinIter ==
  /\ join_pc = "join"
  /\ fastq_next(fwd_reads, fastq_fwd)
  /\ fastq_fwd' = fastq_fwd + 1
  /\ \/ /\ ~fastq_next(rev_reads, fastq_rev)
        /\ join_pc' = "fatal_more_forward"
        /\ UNCHANGED <<fastq_rev, total, join_out>>
     \/ /\ fastq_next(rev_reads, fastq_rev)
        /\ fastq_rev' = fastq_rev + 1
        /\ LET record == JoinRecord(fwd_reads[fastq_fwd'],
                                    rev_reads[fastq_rev'], total)
           IN  join_out' = [f \in JoinFiles |-> JoinPrint(f, record)]
        /\ total' = total + 1
        /\ join_pc' = "join"
  /\ UNCHANGED <<subsamplevars, joinopts, fwd_reads, rev_reads, joinfps>>

\* the end of the loop: the reverse file must be exhausted too; then the
\* files are closed
JoinExit ==
  /\ join_pc = "join"
  /\ ~fastq_next(fwd_reads, fastq_fwd)
  /\ \/ /\ fastq_next(rev_reads, fastq_rev)
        /\ fastq_rev' = fastq_rev + 1
        /\ join_pc' = "fatal_more_reverse"
        /\ UNCHANGED joinfps
     \/ /\ ~fastq_next(rev_reads, fastq_rev)
        /\ fastq_rev' = fastq_rev
        /\ join_fp_fastaout' = FALSE
        /\ join_fp_fastqout' = FALSE
        /\ join_pc' = "done"
  /\ UNCHANGED <<subsamplevars, joinopts, fwd_reads, rev_reads, fastq_fwd,
                 total, join_out>>

JoinNext ==
  \/ check_parameters
  \/ JoinOpenInputs
  \/ JoinOpenFastqout
  \/ JoinOpenFastaout
  \/ JoinIter
  \/ JoinExit

SpecJoin == JoinInit /\ [][JoinNext]_vars

\* ---------------------------------------------------------------------
\* C16
\* ---------------------------------------------------------------------

Reverse(str) == [p \in 1 .. Len(str) |-> str[Len(str) + 1 - p]]

ReverseComplement(str) ==
  [p \in 1 .. Len(str) |-> chrmap_complement_vector[str[Len(str) + 1 - p]]]

Min(u, v) == IF u <= v THEN u ELSE v

JoinConfigured(f) ==
  (f = "fastqout" /\ opt_fastqout) \/ (f = "fastaout" /\ opt_fastaout)

JoinStarted ==
  join_pc \in {"join", "done", "fatal_more_forward", "fatal_more_reverse"}

\* the p-th record of a file is the join of the p-th forward and the p-th
\* reverse read
JoinedInLockstep(f, p) ==
  LET record == join_out[f][p]
      fwd == fwd_reads[p]
      rev == rev_reads[p]
  IN  /\ record.ordinal = p
      /\ record.sequence =
           fwd.sequence \o opt_join_padgap \o ReverseComplement(rev.sequence)
      /\ record.quality =
           fwd.quality \o opt_join_padgapq \o Reverse(rev.quality)
      /\ record.len = Len(fwd.sequence) + padlen + Len(rev.sequence)
      /\ Len(record.sequence) = record.len

\* C16: fastq_join reads the two files in lockstep. The i-th record of
\* every configured output has ordinal i, is the i-th forward read, the
\* padding and the reverse complement of the i-th reverse read, and has
\* length fwd_len + padlen + rev_len. Once the loop is entered the run ends
\* without a fatal error only with as many forward as reverse reads, ends
\* with a fatal error only when the counts differ, and at the fatal error
\* every configured output holds min(#forward, #reverse) joined records.
C16_Lockstep ==
  JoinStarted =>
    /\ total <= Min(Len(fwd_reads), Len(rev_reads))
    /\ \A f \in JoinFiles :
         /\ JoinConfigured(f) =>
              /\ Len(join_out[f]) = total
              /\ \A p \in 1 .. total : JoinedInLockstep(f, p)
         /\ ~JoinConfigured(f) => join_out[f] = <<>>
    /\ join_pc = "done" =>
         /\ Len(fwd_reads) = Len(rev_reads)
         /\ total = Len(fwd_reads)
    /\ join_pc = "fatal_more_forward" =>
         /\ Len(fwd_reads) > Len(rev_reads)
         /\ total = Len(rev_reads)
    /\ join_pc = "fatal_more_reverse" =>
         /\ Len(rev_reads) > Len(fwd_reads)
         /\ total = Len(fwd_reads)
    /\ (join_pc = "join" /\ Len(fwd_reads) = Len(rev_reads)) =>
         fastq_fwd = fastq_rev

\* a run with two forward reads and one reverse read that stopped with
\* "More forward reads than reverse reads" after one joined record was
\* printed to both files
C16_Witness ==
  /\ join_pc = "fatal_more_forward"
  /\ opt_fastqout /\ opt_fastaout
  /\ opt_join_padgap = <<"N">>
  /\ Len(fwd_reads) = 2 /\ Len(rev_reads) = 1
  /\ fwd_reads[1].sequence = <<"A">>
  /\ rev_reads[1].sequence = <<"C", "A">>
  /\ Len(join_out["fastqout"]) = 1
  /\ join_out["fastaout"][1].sequence = <<"A", "N", "T", "G">>

\* a run with two reads in each file that ended without a fatal error
C16_WitnessEqual ==
  /\ join_pc = "done"
  /\ Len(fwd_reads) = 2 /\ Len(rev_reads) = 2
  /\ fwd_reads[1] # fwd_reads[2]
  /\ rev_reads[1] # rev_reads[2]
  /\ total = 2

\* a run with more reverse than forward reads
C16_WitnessMoreReverse ==
  /\ join_pc = "fatal_more_reverse"
  /\ Len(fwd_reads) = 1 /\ Len(rev_reads) = 2
  /\ total = 1

====
